---- MODULE Spec2Model ----
(***************************************************************************)
(* BasicFileMonitorService (include/filemonitor/BasicFileMonitorService.h) *)
(* as a state machine: the registry calls (construct, destroy, addPath,    *)
(* addFile, remove, monitor, asyncMonitor), the worker thread that runs    *)
(* mAsyncMonitorIoService, the MonitorOperation it executes, the host      *)
(* io_service that runs the posted handlers, and the service destructor.   *)
(*                                                                         *)
(* The backend (FileMonitorImpl) is not part of the modelled source; its   *)
(* operations follow the backend contract of the specification: destroy    *)
(* wakes every blocked popFrontEvent, which then returns operation_aborted.*)
(***************************************************************************)
EXTENDS Integers, Sequences, FiniteSets, TLC

\* ------------------------------------------------------------------ bounds
\* asyncMonitor calls issued in one run
MaxOps == 3
\* events the backends produce in one run
MaxEvents == 1
\* successful registrations per backend
MaxWatches == 1
\* caller threads that may be inside monitor() at the same time
MaxMonitors == 1

\* The implementation handles (one per io object attached to the service).
Handles == {"A", "B"}
NullImpl == "null"

Ops == 1 .. MaxOps

\* Error codes of a wait and results of a registration.
Success == "success"
Aborted == "operation_aborted"
Garbage == "garbage"
InvalidPath == "InvalidPath"
UnresolvedSymlink == "UnresolvedSymlink"
Registered == "registered"

EmptyEvent == [id |-> 0, w |-> 0]
NoResult == [ec |-> "none", ev |-> EmptyEvent]
NoCall == [op |-> "none", kind |-> "none", res |-> "none"]

\* What a path given to addPath/addFile is on disk.  A symlink is described
\* by what it points to; a symlink whose content is its own path (a loop
\* that no status query resolves) is left out of the inputs.
PathKinds == {"missing", "file", "dir", "linkToFile", "linkToDir", "linkToMissing"}

VARIABLES
    hst,        \* per handle: the state of the shared_ptr `impl'
    bk,         \* per handle: the backend instance it was constructed with
    nOps,       \* number of asyncMonitor calls issued
    opSt,       \* per operation: where the MonitorOperation is
    opImpl,     \* per operation: the target of its weak_ptr mImpl
    queue,      \* handler queue of mAsyncMonitorIoService
    wpc,        \* the worker thread: wait | pop | exit
    wop,        \* the operation the worker is executing (0: none)
    tear,       \* progress of ~BasicFileMonitorService
    hostQ,      \* completions posted to the host io_service, not yet run
    invoked,    \* per operation: how often its handler ran
    delivered,  \* per operation: the (ec, ev) its handler received
    monIn,      \* per handle: caller threads inside monitor()'s popFrontEvent
    monDangling,\* caller threads inside popFrontEvent of a deallocated backend
    monHung,    \* caller threads that never return from such a call
    nEv,        \* events produced so far
    started,    \* history: operations in the order the worker started them
    postedLog,  \* history: operations in the order their completion was posted
    pendingAtDestroy, \* history: operations pending when destroy() hit their backend
    hostWork,   \* outstanding work of the host io_service (work objects, handlers)
    last        \* the call that made the last step, with its outcome

vars == <<hst, bk, nOps, opSt, opImpl, queue, wpc, wop, tear, hostQ, invoked,
          delivered, monIn, monDangling, monHung, nEv, started, postedLog,
          pendingAtDestroy, hostWork, last>>

\* ------------------------------------------------------- boost::filesystem
IsDirectory(k) == k \in {"dir", "linkToDir"}

IsRegularFile(k) == k \in {"file", "linkToFile"}

IsSymlink(k) == k \in {"linkToFile", "linkToDir", "linkToMissing"}

\* read_symlink( path ) != path
SymlinkTargetDiffers(k) == k \in {"linkToFile", "linkToDir", "linkToMissing"}

\* ------------------------------------------------------------- the backend
NewBackend == [alive |-> TRUE, destroyed |-> FALSE, events |-> <<>>,
               watches |-> {}, nextId |-> 1]
NoBackend == [alive |-> FALSE, destroyed |-> FALSE, events |-> <<>>,
              watches |-> {}, nextId |-> 1]

\* popFrontEvent can return: an event is queued or the backend was destroyed.
PopReady(b) == b.destroyed \/ b.events # <<>>

PopResult(b) ==
    IF b.destroyed THEN [ec |-> Aborted, ev |-> EmptyEvent]
    ELSE [ec |-> Success, ev |-> Head(b.events)]

AfterPop(b) ==
    IF b.destroyed THEN b ELSE [b EXCEPT !.events = Tail(b.events)]

\* ------------------------------------------------------------ shared_ptr
\* The registry's shared_ptr owns the backend.
RegistryOwns(h) == hst[h] \in {"live", "destroying"}

\* The worker's local `impl' (the locked weak_ptr) owns the backend.
WorkerOwns(h) == wpc = "pop" /\ opImpl[wop] = h

\* A variant that takes the weak_ptr for resolvable whenever it was made from
\* a backend, deallocated or not.
LockSucceedsRaw(o) == opImpl[o] # NullImpl

\* weak_ptr::lock succeeds while some shared_ptr owns the backend.
LockSucceeds(o) == opImpl[o] # NullImpl /\ bk[opImpl[o]].alive

\* ------------------------------------------------------------------ Init
Init ==
    /\ hst = [h \in Handles |-> "none"]
    /\ bk = [h \in Handles |-> NoBackend]
    /\ nOps = 0
    /\ opSt = [o \in Ops |-> "none"]
    /\ opImpl = [o \in Ops |-> NullImpl]
    /\ queue = <<>>
    /\ wpc = "wait"
    /\ wop = 0
    /\ tear = "up"
    /\ hostQ = <<>>
    /\ invoked = [o \in Ops |-> 0]
    /\ delivered = [o \in Ops |-> NoResult]
    /\ monIn = [h \in Handles |-> 0]
    /\ monDangling = 0
    /\ monHung = 0
    /\ nEv = 0
    /\ started = <<>>
    /\ postedLog = <<>>
    /\ pendingAtDestroy = {}
    /\ hostWork = 0
    /\ last = NoCall

\* ------------------------------------------------- construct and destroy
\* construct: impl.reset( new FileMonitorImplementation() )
Construct(h) ==
    /\ tear = "up"
    /\ hst[h] = "none"
    /\ hst' = [hst EXCEPT ![h] = "live"]
    /\ bk' = [bk EXCEPT ![h] = NewBackend]
    /\ last' = NoCall
    /\ UNCHANGED hostWork
    /\ UNCHANGED <<nOps, opSt, opImpl, queue, wpc, wop, tear, hostQ, invoked,
                   delivered, monIn, monDangling, monHung, nEv, started,
                   postedLog, pendingAtDestroy>>

\* The operations of handle h that have been submitted and not yet completed.
PendingOn(h) == {o \in Ops : opSt[o] \in {"queued", "running"} /\ opImpl[o] = h}

\* A variant of impl->destroy() that does not wake the blocked pops.
DestroyBeginNoWake(h) ==
    /\ tear = "up"
    /\ hst[h] = "live"
    /\ hst' = [hst EXCEPT ![h] = "destroying"]
    /\ pendingAtDestroy' = pendingAtDestroy \cup PendingOn(h)
    /\ last' = NoCall
    /\ UNCHANGED hostWork
    /\ UNCHANGED <<bk, nOps, opSt, opImpl, queue, wpc, wop, tear, hostQ, invoked,
                   delivered, monIn, monDangling, monHung, nEv, started,
                   postedLog>>

\* destroy, first statement: impl->destroy()
DestroyBegin(h) ==
    /\ tear = "up"
    /\ hst[h] = "live"
    /\ hst' = [hst EXCEPT ![h] = "destroying"]
    /\ bk' = [bk EXCEPT ![h].destroyed = TRUE]
    /\ pendingAtDestroy' = pendingAtDestroy \cup PendingOn(h)
    /\ last' = NoCall
    /\ UNCHANGED hostWork
    /\ UNCHANGED <<nOps, opSt, opImpl, queue, wpc, wop, tear, hostQ, invoked,
                   delivered, monIn, monDangling, monHung, nEv, started,
                   postedLog>>

\* A variant in which the queued operations own the backend: releasing the
\* registry's ownership deallocates nothing.
DestroyEndKeepsAlive(h) ==
    /\ hst[h] = "destroying"
    /\ hst' = [hst EXCEPT ![h] = "released"]
    /\ last' = NoCall
    /\ UNCHANGED hostWork
    /\ UNCHANGED <<bk, monIn, monDangling>>
    /\ UNCHANGED <<nOps, opSt, opImpl, queue, wpc, wop, tear, hostQ, invoked,
                   delivered, monHung, nEv, started, postedLog,
                   pendingAtDestroy>>

\* A variant in which every pending operation holds a shared_ptr: the
\* backend outlives impl.reset() while an operation on it is pending.
DestroyEndStrongOps(h) ==
    /\ hst[h] = "destroying"
    /\ hst' = [hst EXCEPT ![h] = "released"]
    /\ IF PendingOn(h) # {}
       THEN UNCHANGED <<bk, monIn, monDangling>>
       ELSE /\ bk' = [bk EXCEPT ![h].alive = FALSE]
            /\ monDangling' = monDangling + monIn[h]
            /\ monIn' = [monIn EXCEPT ![h] = 0]
    /\ last' = NoCall
    /\ UNCHANGED hostWork
    /\ UNCHANGED <<nOps, opSt, opImpl, queue, wpc, wop, tear, hostQ, invoked,
                   delivered, monHung, nEv, started, postedLog,
                   pendingAtDestroy>>

\* destroy, second statement: impl.reset().  The backend is deallocated
\* unless the worker's locked shared_ptr still owns it; the threads inside
\* monitor() own nothing and are left executing on a deallocated object.
DestroyEnd(h) ==
    /\ hst[h] = "destroying"
    /\ hst' = [hst EXCEPT ![h] = "released"]
    /\ IF WorkerOwns(h)
       THEN UNCHANGED <<bk, monIn, monDangling>>
       ELSE /\ bk' = [bk EXCEPT ![h].alive = FALSE]
            /\ monDangling' = monDangling + monIn[h]
            /\ monIn' = [monIn EXCEPT ![h] = 0]
    /\ last' = NoCall
    /\ UNCHANGED hostWork
    /\ UNCHANGED <<nOps, opSt, opImpl, queue, wpc, wop, tear, hostQ, invoked,
                   delivered, monHung, nEv, started, postedLog,
                   pendingAtDestroy>>

\* ------------------------------------------------------- registration
\* addPath: the condition under which it throws (line 91)
AddPathInvalid(k) == ~IsDirectory(k)

AddFileInvalidExists(k) == k \in {"missing", "linkToMissing"}

\* addFile: the conditions under which it throws (lines 102 and 107)
AddFileInvalid(k) == ~IsRegularFile(k)

AddFileUnresolvedNoCheck(k) == IsSymlink(k) /\ ~SymlinkTargetDiffers(k)

AddFileUnresolved(k) == IsSymlink(k) /\ SymlinkTargetDiffers(k)

\* The backend's addPath/addFile: a new watch with the next handle id.
BackendAdd(h) ==
    /\ bk[h].nextId <= MaxWatches
    /\ bk' = [bk EXCEPT ![h].watches = @ \cup {bk[h].nextId},
                        ![h].nextId = @ + 1]

AddPath(h, k) ==
    /\ tear = "up"
    /\ RegistryOwns(h)
    /\ IF AddPathInvalid(k)
       THEN /\ last' = [op |-> "addPath", kind |-> k, res |-> InvalidPath]
            /\ UNCHANGED bk
       ELSE /\ BackendAdd(h)
            /\ last' = [op |-> "addPath", kind |-> k, res |-> Registered]
    /\ UNCHANGED hostWork
    /\ UNCHANGED <<hst, nOps, opSt, opImpl, queue, wpc, wop, tear, hostQ,
                   invoked, delivered, monIn, monDangling, monHung, nEv,
                   started, postedLog, pendingAtDestroy>>

AddFile(h, k) ==
    /\ tear = "up"
    /\ RegistryOwns(h)
    /\ IF AddFileInvalid(k)
       THEN /\ last' = [op |-> "addFile", kind |-> k, res |-> InvalidPath]
            /\ UNCHANGED bk
       ELSE IF AddFileUnresolved(k)
       THEN /\ last' = [op |-> "addFile", kind |-> k, res |-> UnresolvedSymlink]
            /\ UNCHANGED bk
       ELSE /\ BackendAdd(h)
            /\ last' = [op |-> "addFile", kind |-> k, res |-> Registered]
    /\ UNCHANGED hostWork
    /\ UNCHANGED <<hst, nOps, opSt, opImpl, queue, wpc, wop, tear, hostQ,
                   invoked, delivered, monIn, monDangling, monHung, nEv,
                   started, postedLog, pendingAtDestroy>>

\* The events of q that do not come from watch id.
RECURSIVE WithoutWatch(_, _)
WithoutWatch(q, id) ==
    IF q = <<>> THEN <<>>
    ELSE IF Head(q).w = id THEN WithoutWatch(Tail(q), id)
    ELSE <<Head(q)>> \o WithoutWatch(Tail(q), id)

\* The backend's remove: it honours the removal for the events it still
\* holds, and produces no further event for the watch.
BackendRemove(b, id) ==
    [b EXCEPT !.watches = @ \ {id}, !.events = WithoutWatch(@, id)]

\* remove: impl->remove( id ); an unknown id is left to the backend (no-op).
Remove(h, id) ==
    /\ tear = "up"
    /\ RegistryOwns(h)
    /\ id \in bk[h].watches
    /\ bk' = [bk EXCEPT ![h] = BackendRemove(bk[h], id)]
    /\ last' = NoCall
    /\ UNCHANGED hostWork
    /\ UNCHANGED <<hst, nOps, opSt, opImpl, queue, wpc, wop, tear, hostQ,
                   invoked, delivered, monIn, monDangling, monHung, nEv,
                   started, postedLog, pendingAtDestroy>>

\* The backend notices a change under one of its watches and queues an event
\* (observed for as long as the service exists).
BackendEvent(h, w) ==
    /\ tear # "down"
    /\ bk[h].alive /\ ~bk[h].destroyed
    /\ w \in bk[h].watches
    /\ nEv < MaxEvents
    /\ nEv' = nEv + 1
    /\ bk' = [bk EXCEPT ![h].events = Append(@, [id |-> nEv + 1, w |-> w])]
    /\ last' = NoCall
    /\ UNCHANGED hostWork
    /\ UNCHANGED <<hst, nOps, opSt, opImpl, queue, wpc, wop, tear, hostQ,
                   invoked, delivered, monIn, monDangling, monHung, started,
                   postedLog, pendingAtDestroy>>

\* ---------------------------------------------------------------- monitor
RECURSIVE SumOver(_, _)
SumOver(f, S) ==
    IF S = {} THEN 0
    ELSE LET x == CHOOSE y \in S : TRUE IN f[x] + SumOver(f, S \ {x})

\* Caller threads currently inside monitor().
InMonitor == SumOver(monIn, Handles) + monDangling + monHung

\* monitor: the caller enters impl->popFrontEvent( ec ) through the registry's
\* own shared_ptr, taking no reference of its own.  (A call that begins while
\* another thread is inside destroy() behaves as one that began just before
\* it, and is not modelled apart.)
MonitorEnter(h) ==
    /\ tear = "up"
    /\ hst[h] = "live"
    /\ InMonitor < MaxMonitors
    /\ monIn' = [monIn EXCEPT ![h] = @ + 1]
    /\ last' = NoCall
    /\ UNCHANGED hostWork
    /\ UNCHANGED <<hst, bk, nOps, opSt, opImpl, queue, wpc, wop, tear, hostQ,
                   invoked, delivered, monDangling, monHung, nEv, started,
                   postedLog, pendingAtDestroy>>

\* monitor: popFrontEvent returns on a backend that still exists.
MonitorReturn(h) ==
    /\ monIn[h] > 0
    /\ PopReady(bk[h])
    /\ monIn' = [monIn EXCEPT ![h] = @ - 1]
    /\ bk' = [bk EXCEPT ![h] = AfterPop(bk[h])]
    /\ last' = [op |-> "monitor",
                kind |-> IF bk[h].destroyed THEN "destroyed" ELSE "event",
                res |-> PopResult(bk[h]).ec]
    /\ UNCHANGED hostWork
    /\ UNCHANGED <<hst, nOps, opSt, opImpl, queue, wpc, wop, tear, hostQ,
                   invoked, delivered, monDangling, monHung, nEv, started,
                   postedLog, pendingAtDestroy>>

\* monitor: popFrontEvent was still executing when the backend was
\* deallocated.  What it does next is undefined: it may return the abort it
\* was woken for, return anything else, or never return.
MonitorDanglingReturn(ec) ==
    /\ monDangling > 0
    /\ monDangling' = monDangling - 1
    /\ last' = [op |-> "monitor", kind |-> "deallocated", res |-> ec]
    /\ UNCHANGED hostWork
    /\ UNCHANGED <<hst, bk, nOps, opSt, opImpl, queue, wpc, wop, tear, hostQ,
                   invoked, delivered, monIn, monHung, nEv, started,
                   postedLog, pendingAtDestroy>>

MonitorDanglingHang ==
    /\ monDangling > 0
    /\ monDangling' = monDangling - 1
    /\ monHung' = monHung + 1
    /\ last' = NoCall
    /\ UNCHANGED hostWork
    /\ UNCHANGED <<hst, bk, nOps, opSt, opImpl, queue, wpc, wop, tear, hostQ,
                   invoked, delivered, monIn, nEv, started, postedLog,
                   pendingAtDestroy>>

\* ----------------------------------------------------------- asyncMonitor
\* A variant that observes the handle's backend whether or not the handle
\* still holds one.
WeakTargetRaw(h) == h

\* MonitorOperation's constructor: mImpl( impl ), a weak_ptr that is empty
\* when the handle holds no backend.
WeakTarget(h) == IF RegistryOwns(h) THEN h ELSE NullImpl

\* A variant that runs the operation on the calling thread instead of
\* posting it: the caller locks the weak_ptr and enters popFrontEvent itself.
AsyncMonitorInline(h) ==
    /\ tear = "up"
    /\ nOps < MaxOps
    /\ nOps' = nOps + 1
    /\ opImpl' = [opImpl EXCEPT ![nOps + 1] = WeakTarget(h)]
    /\ IF RegistryOwns(h)
       THEN /\ opSt' = [opSt EXCEPT ![nOps + 1] = "running"]
            /\ monIn' = [monIn EXCEPT ![h] = @ + 1]
            /\ UNCHANGED <<hostQ, postedLog>>
       ELSE /\ opSt' = [opSt EXCEPT ![nOps + 1] = "posted"]
            /\ hostQ' = Append(hostQ, [op |-> nOps + 1, ec |-> Aborted, ev |-> EmptyEvent])
            /\ postedLog' = Append(postedLog, nOps + 1)
            /\ UNCHANGED monIn
    /\ hostWork' = hostWork + 1
    /\ last' = [op |-> "asyncMonitor", kind |-> "none", res |-> "returned"]
    /\ UNCHANGED <<hst, bk, queue, wpc, wop, tear, invoked, delivered,
                   monDangling, monHung, nEv, started, pendingAtDestroy>>

\* A variant of the operation without the member mWork: submitting it adds
\* no work to the host io_service.
AsyncMonitorNoWork(h) ==
    /\ tear = "up"
    /\ nOps < MaxOps
    /\ nOps' = nOps + 1
    /\ opImpl' = [opImpl EXCEPT ![nOps + 1] = WeakTarget(h)]
    /\ opSt' = [opSt EXCEPT ![nOps + 1] = "queued"]
    /\ queue' = Append(queue, nOps + 1)
    /\ last' = [op |-> "asyncMonitor", kind |-> "none", res |-> "returned"]
    /\ UNCHANGED hostWork
    /\ UNCHANGED <<hst, bk, wpc, wop, tear, hostQ, invoked, delivered, monIn,
                   monDangling, monHung, nEv, started, postedLog,
                   pendingAtDestroy>>

\* asyncMonitor: mAsyncMonitorIoService.post( MonitorOperation( impl, ... ) ).
\* The operation's member mWork is one unit of work on the host io_service.
AsyncMonitor(h) ==
    /\ tear = "up"
    /\ nOps < MaxOps
    /\ nOps' = nOps + 1
    /\ opImpl' = [opImpl EXCEPT ![nOps + 1] = WeakTarget(h)]
    /\ opSt' = [opSt EXCEPT ![nOps + 1] = "queued"]
    /\ queue' = Append(queue, nOps + 1)
    /\ hostWork' = hostWork + 1
    /\ last' = [op |-> "asyncMonitor", kind |-> "none", res |-> "returned"]
    /\ UNCHANGED <<hst, bk, wpc, wop, tear, hostQ, invoked, delivered, monIn,
                   monDangling, monHung, nEv, started, postedLog,
                   pendingAtDestroy>>

\* ------------------------------------------------------------- the worker
DequeueLifo(q) == [task |-> q[Len(q)], rest |-> SubSeq(q, 1, Len(q) - 1)]

\* io_service::run takes the handlers in the order they were posted.
Dequeue(q) == [task |-> Head(q), rest |-> Tail(q)]

WorkerIdleOrBusy == wpc # "exit"

\* A variant with one worker per backend: an operation is taken while the
\* operation being executed is on another backend.
WorkerIdlePerBackend ==
    \/ wpc = "wait"
    \/ wpc = "pop" /\ queue # <<>> /\ opImpl[Head(queue)] # opImpl[wop]

\* One thread runs mAsyncMonitorIoService: it takes a handler only when it
\* is not executing one.
WorkerIdle == wpc = "wait"

AbortedCompletion(o) == [op |-> o, ec |-> Aborted, ev |-> EmptyEvent]

PostsNoElse(o, locked, r) ==
    IF locked THEN <<[op |-> o, ec |-> r.ec, ev |-> r.ev], AbortedCompletion(o)>>
    ELSE <<AbortedCompletion(o)>>

\* A variant that posts the pop's error code and loses its event.
PostsDropEvent(o, locked, r) ==
    IF locked THEN <<[op |-> o, ec |-> r.ec, ev |-> EmptyEvent]>>
    ELSE <<AbortedCompletion(o)>>

\* What MonitorOperation::operator() posts to the host io_service: the pop's
\* (ec, ev) when the lock succeeded, (operation_aborted, empty) otherwise.
Posts(o, locked, r) ==
    IF locked THEN <<[op |-> o, ec |-> r.ec, ev |-> r.ev]>>
    ELSE <<AbortedCompletion(o)>>

\* The worker takes the next operation and runs operator() up to the
\* blocking call: lock the weak_ptr, enter popFrontEvent or post the abort.
\* A posted handler is work of the host io_service; the operation, and its
\* mWork, is destroyed when operator() has returned.
WorkerStart ==
    /\ WorkerIdle
    /\ tear \in {"up", "workReset"}
    /\ queue # <<>>
    /\ LET o == Dequeue(queue).task IN
       /\ queue' = Dequeue(queue).rest
       /\ started' = Append(started, o)
       /\ IF LockSucceeds(o)
          THEN /\ wpc' = "pop"
               /\ wop' = o
               /\ opSt' = [opSt EXCEPT ![o] = "running"]
               /\ UNCHANGED <<hostQ, postedLog, hostWork>>
          ELSE /\ hostQ' = hostQ \o Posts(o, FALSE, NoResult)
               /\ postedLog' = Append(postedLog, o)
               /\ opSt' = [opSt EXCEPT ![o] = "posted"]
               /\ hostWork' = hostWork + Len(Posts(o, FALSE, NoResult)) - 1
               /\ UNCHANGED <<wpc, wop>>
    /\ last' = NoCall
    /\ UNCHANGED <<hst, bk, nOps, opImpl, tear, invoked, delivered, monIn,
                   monDangling, monHung, nEv, pendingAtDestroy>>

\* A variant in which the worker calls the handler itself when the pop
\* returns, instead of posting it to the host io_service.
WorkerPopReturnInline ==
    /\ wpc = "pop"
    /\ LET o == wop
           h == opImpl[wop]
       IN
       /\ PopReady(bk[h])
       /\ invoked' = [invoked EXCEPT ![o] = @ + 1]
       /\ delivered' = [delivered EXCEPT ![o] = PopResult(bk[h])]
       /\ hostWork' = hostWork - 1
       /\ opSt' = [opSt EXCEPT ![o] = "done"]
       /\ IF RegistryOwns(h)
          THEN /\ bk' = [bk EXCEPT ![h] = AfterPop(bk[h])]
               /\ UNCHANGED <<monIn, monDangling>>
          ELSE /\ bk' = [bk EXCEPT ![h] = [AfterPop(bk[h]) EXCEPT !.alive = FALSE]]
               /\ monDangling' = monDangling + monIn[h]
               /\ monIn' = [monIn EXCEPT ![h] = 0]
    /\ wpc' = "wait"
    /\ wop' = 0
    /\ last' = NoCall
    /\ UNCHANGED <<hst, nOps, opImpl, queue, tear, hostQ, postedLog,
                   monHung, nEv, started, pendingAtDestroy>>

\* popFrontEvent returns on the worker: post (ec, ev); `impl' goes out of
\* scope, which deallocates the backend when the registry has released it.
WorkerPopReturn ==
    /\ wpc = "pop"
    /\ LET o == wop
           h == opImpl[wop]
       IN
       /\ PopReady(bk[h])
       /\ hostQ' = hostQ \o Posts(o, TRUE, PopResult(bk[h]))
       /\ hostWork' = hostWork + Len(Posts(o, TRUE, PopResult(bk[h]))) - 1
       /\ postedLog' = Append(postedLog, o)
       /\ opSt' = [opSt EXCEPT ![o] = "posted"]
       /\ IF RegistryOwns(h)
          THEN /\ bk' = [bk EXCEPT ![h] = AfterPop(bk[h])]
               /\ UNCHANGED <<monIn, monDangling>>
          ELSE /\ bk' = [bk EXCEPT ![h] = [AfterPop(bk[h]) EXCEPT !.alive = FALSE]]
               /\ monDangling' = monDangling + monIn[h]
               /\ monIn' = [monIn EXCEPT ![h] = 0]
    /\ wpc' = "wait"
    /\ wop' = 0
    /\ last' = NoCall
    /\ UNCHANGED <<hst, nOps, opImpl, queue, tear, invoked, delivered,
                   monHung, nEv, started, pendingAtDestroy>>

\* io_service::run returns: stopped, or out of work with the work token gone.
WorkerExit ==
    /\ wpc = "wait"
    /\ \/ tear = "stopped"
       \/ tear = "workReset" /\ queue = <<>>
    /\ wpc' = "exit"
    /\ last' = NoCall
    /\ UNCHANGED hostWork
    /\ UNCHANGED <<hst, bk, nOps, opSt, opImpl, queue, wop, tear, hostQ,
                   invoked, delivered, monIn, monDangling, monHung, nEv,
                   started, postedLog, pendingAtDestroy>>

\* ------------------------------------------------ ~BasicFileMonitorService
\* No caller is inside a call of the service when its destructor begins.
NoCallInProgress ==
    /\ \A h \in Handles : hst[h] # "destroying" /\ monIn[h] = 0
    /\ monDangling = 0

\* mAsyncMonitorWork.reset()
TeardownResetWork ==
    /\ tear = "up"
    /\ NoCallInProgress
    /\ tear' = "workReset"
    /\ last' = NoCall
    /\ UNCHANGED hostWork
    /\ UNCHANGED <<hst, bk, nOps, opSt, opImpl, queue, wpc, wop, hostQ,
                   invoked, delivered, monIn, monDangling, monHung, nEv,
                   started, postedLog, pendingAtDestroy>>

\* mAsyncMonitorIoService.stop()
TeardownStop ==
    /\ tear = "workReset"
    /\ tear' = "stopped"
    /\ last' = NoCall
    /\ UNCHANGED hostWork
    /\ UNCHANGED <<hst, bk, nOps, opSt, opImpl, queue, wpc, wop, hostQ,
                   invoked, delivered, monIn, monDangling, monHung, nEv,
                   started, postedLog, pendingAtDestroy>>

\* mAsyncMonitorThread.join(), then the members are destroyed: the handlers
\* still queued in mAsyncMonitorIoService are destroyed without being run.
TeardownJoin ==
    /\ tear = "stopped"
    /\ wpc = "exit"
    /\ tear' = "down"
    /\ opSt' = [o \in Ops |-> IF opSt[o] = "queued" THEN "discarded" ELSE opSt[o]]
    /\ hostWork' = hostWork - Len(queue)
    /\ queue' = <<>>
    /\ last' = NoCall
    /\ UNCHANGED <<hst, bk, nOps, opImpl, wpc, wop, hostQ, invoked, delivered,
                   monIn, monDangling, monHung, nEv, started, postedLog,
                   pendingAtDestroy>>

\* ---------------------------------------------------------- the host loop
\* The host io_service runs the oldest posted completion: mHandler( ec, ev ).
HostRun ==
    /\ hostQ # <<>>
    /\ LET c == Head(hostQ) IN
       /\ invoked' = [invoked EXCEPT ![c.op] = @ + 1]
       /\ delivered' = [delivered EXCEPT ![c.op] = [ec |-> c.ec, ev |-> c.ev]]
       /\ opSt' = [opSt EXCEPT ![c.op] = "done"]
    /\ hostQ' = Tail(hostQ)
    /\ hostWork' = hostWork - 1
    /\ last' = NoCall
    /\ UNCHANGED <<hst, bk, nOps, opImpl, queue, wpc, wop, tear, monIn,
                   monDangling, monHung, nEv, started, postedLog,
                   pendingAtDestroy>>

\* ------------------------------------------------------- the specification
\* The calls on the registry, for the handles H and the path kinds K.
Registry(H, K) ==
    \/ \E h \in H : Construct(h)
    \/ \E h \in H : DestroyBegin(h)
    \/ \E h \in H : DestroyEnd(h)
    \/ \E h \in H, k \in K : AddPath(h, k)
    \/ \E h \in H, k \in K : AddFile(h, k)
    \/ \E h \in H, id \in 1 .. MaxWatches : Remove(h, id)

\* The backend's events and the blocking monitor().
Waits(H) ==
    \/ \E h \in H, w \in 1 .. MaxWatches : BackendEvent(h, w)
    \/ \E h \in H : MonitorEnter(h)
    \/ \E h \in H : MonitorReturn(h)
    \/ \E ec \in {Aborted, Success, Garbage} : MonitorDanglingReturn(ec)
    \/ MonitorDanglingHang

\* asyncMonitor, the worker executing the operations, the host loop.
Async(H) ==
    \/ \E h \in H : AsyncMonitor(h)
    \/ WorkerStart
    \/ WorkerPopReturn
    \/ HostRun

\* The destructor of the service and the end of the worker thread.
Teardown ==
    \/ WorkerExit
    \/ TeardownResetWork
    \/ TeardownStop
    \/ TeardownJoin

\* Every thread of a service with one io object attached.
Next == Registry({"A"}, {"dir", "file"}) \/ Waits({"A"}) \/ Async({"A"}) \/ Teardown

Spec == Init /\ [][Next]_vars

\* The registrations with every kind of path, beside the asynchronous waits
\* (no blocking monitor(), no destructor of the service).
NextReg ==
    \/ Registry({"A"}, PathKinds)
    \/ \E w \in 1 .. MaxWatches : BackendEvent("A", w)
    \/ Async({"A"})

RegSpec == Init /\ [][NextReg]_vars

\* ------------------------------------------------- service after service
\* BasicFileMonitorService(): a new service instance on the same host
\* io_service, after the previous instance has been destroyed.  It has its
\* own io_service, work object and worker thread, and no io object yet.
ServiceConstruct ==
    /\ tear = "down"
    /\ tear' = "up"
    /\ wpc' = "wait"
    /\ wop' = 0
    /\ hst' = [h \in Handles |-> "none"]
    /\ bk' = [h \in Handles |-> NoBackend]
    /\ last' = NoCall
    /\ UNCHANGED hostWork
    /\ UNCHANGED <<nOps, opSt, opImpl, queue, hostQ, invoked, delivered,
                   monIn, monDangling, monHung, nEv, started, postedLog,
                   pendingAtDestroy>>

\* Services constructed and destroyed one after the other, each with one io
\* object that is constructed and destroyed, asynchronous waits in between.
NextCycle ==
    \/ ServiceConstruct
    \/ Construct("A")
    \/ DestroyBegin("A")
    \/ DestroyEnd("A")
    \/ Async({"A"})
    \/ Teardown

CycleSpec == Init /\ [][NextCycle]_vars

\* The threads make progress: the destructor's thread goes through its
\* statements, the worker thread runs, a pop that can return does return.
CycleFairness ==
    /\ WF_vars(TeardownStop)
    /\ WF_vars(TeardownJoin)
    /\ WF_vars(WorkerPopReturn)
    /\ WF_vars(WorkerExit)

CycleFairSpec == CycleSpec /\ CycleFairness

\* ---------------------------------------------- two io objects, one service
\* Two io objects attached to the service: their registrations, events and
\* asynchronous waits on the worker, and the destruction of the first.  (The
\* host loop is left out: it takes no part in what the worker starts.)
NextTwo ==
    \/ \E h \in Handles : Construct(h)
    \/ DestroyBegin("A")
    \/ DestroyEnd("A")
    \/ \E h \in Handles : AddPath(h, "dir")
    \/ \E h \in Handles, w \in 1 .. MaxWatches : BackendEvent(h, w)
    \/ \E h \in Handles : AsyncMonitor(h)
    \/ WorkerStart
    \/ WorkerPopReturn

TwoSpec == Init /\ [][NextTwo]_vars

\* ================================================================= claims

\* Completions of operation o: handler invocations done plus those still
\* waiting in the host io_service.
CompletionsOf(o) ==
    invoked[o] + Cardinality({i \in DOMAIN hostQ : hostQ[i].op = o})

\* C1: for every asyncMonitor call, the handler is never invoked more than
\* once (and no second completion is ever waiting for it), in every
\* interleaving of callers, worker, host loop, destroy() and the destructor.
C1_HandlerAtMostOnce == \A o \in Ops : CompletionsOf(o) <= 1

\* An operation's handler has run, the backend was destroyed and released,
\* and the service has been torn down.
C1_Witness ==
    /\ tear = "down"
    /\ hst["A"] = "released"
    /\ \E o \in Ops : invoked[o] = 1 /\ opImpl[o] = "A"

\* C2: no submitted operation ends its life without a posted completion,
\* also not the operations still queued when the service is torn down.
C2_EveryOperationCompletes == \A o \in Ops : opSt[o] # "discarded"

\* The worker never executes popFrontEvent on a deallocated backend.
WorkerPopsOnLiveBackend == wpc = "pop" => bk[opImpl[wop]].alive

\* C3: every operation that was pending (queued or in its pop) when destroy()
\* was issued on its backend gets its handler invoked exactly once, with
\* operation_aborted, and the worker never touches a deallocated backend.
C3_PendingAtDestroyAborted ==
    /\ WorkerPopsOnLiveBackend
    /\ \A o \in pendingAtDestroy :
          /\ opSt[o] # "discarded"
          /\ CompletionsOf(o) <= 1
          /\ invoked[o] = 1 => delivered[o].ec = Aborted

\* The part of C3 that the code does keep: at most once, and with
\* operation_aborted whenever the handler runs.
C3_AbortedWhenInvoked ==
    /\ WorkerPopsOnLiveBackend
    /\ \A o \in pendingAtDestroy :
          /\ CompletionsOf(o) <= 1
          /\ invoked[o] = 1 => delivered[o].ec = Aborted

\* C4: a monitor() call that destroy() finds inside popFrontEvent returns,
\* with operation_aborted, and never hangs; and destroy() has called the
\* backend's destroy whenever it has released the backend.
C4_BlockedMonitorReturnsAborted ==
    /\ monHung = 0
    /\ (last.op = "monitor" /\ last.kind \in {"destroyed", "deallocated"})
          => last.res = Aborted
    /\ \A h \in Handles : hst[h] = "released" => bk[h].destroyed

\* C5: no thread executes popFrontEvent on a backend that has been
\* deallocated, neither the worker nor a caller inside monitor().
C5_NoPopOnDeallocatedBackend ==
    /\ WorkerPopsOnLiveBackend
    /\ monDangling = 0

Ascending(q) == \A i \in DOMAIN q : \A j \in DOMAIN q : i < j => q[i] < q[j]

\* C6: the worker starts the operations, and posts their completions, in the
\* order of submission (operation n is the n-th asyncMonitor call), and it
\* starts none before the one ahead of it has posted its completion.
C6_FifoOrder ==
    /\ \A i \in DOMAIN started : started[i] = i
    /\ \A i \in DOMAIN postedLog : postedLog[i] = i
    /\ Len(postedLog) <= Len(started)
    /\ Len(started) <= Len(postedLog) + 1
    /\ Len(started) = Len(postedLog) + 1 => (wpc = "pop" /\ wop = Len(started))
    /\ Ascending(queue)
    /\ Ascending([i \in DOMAIN hostQ |-> hostQ[i].op])

\* Three operations on the same backend have all posted their completions.
C6_Witness ==
    /\ postedLog = <<1, 2, 3>>
    /\ \A o \in 1 .. 3 : opImpl[o] = "A"

\* C7: asyncMonitor only enqueues: the step that makes the call appends one
\* operation to the worker's queue and touches neither the backend, nor the
\* worker, nor the host loop, and leaves no caller inside popFrontEvent; it
\* can be made whenever the service is up, whatever the worker is doing; and
\* an operation's popFrontEvent is executed by the worker thread only.
C7_AsyncMonitorNeverBlocks ==
    /\ [](\A o \in Ops : opSt[o] = "running" => (wpc = "pop" /\ wop = o))
    /\ []((tear = "up" /\ nOps < MaxOps) => ENABLED AsyncMonitor("A"))
    /\ [][last'.op = "asyncMonitor" =>
            /\ nOps' = nOps + 1
            /\ queue' = Append(queue, nOps + 1)
            /\ opSt'[nOps + 1] = "queued"
            /\ UNCHANGED <<bk, wpc, wop, hostQ, monIn, started>>]_vars

\* asyncMonitor has just returned while the worker is blocked in a pop for
\* which no event exists and the backend is not destroyed.
C7_Witness ==
    /\ last.op = "asyncMonitor"
    /\ wpc = "pop"
    /\ ~PopReady(bk[opImpl[wop]])
    /\ nEv = 0
    /\ Len(queue) = 2

\* popFrontEvent calls outstanding against the backend of handle h.
PopsOn(h) == monIn[h] + Cardinality({o \in Ops : opSt[o] = "running" /\ opImpl[o] = h})

\* C8 as stated: at most one popFrontEvent is outstanding against a backend,
\* for any mix of asyncMonitor() and monitor() calls.
C8_AtMostOnePop == \A h \in Handles : PopsOn(h) <= 1

\* C8 as amended: at most one popFrontEvent made for asyncMonitor operations
\* is outstanding, against a backend and in the whole service; the pops of
\* monitor() callers come on top of it.
C8_AtMostOneAsyncPop ==
    /\ Cardinality({o \in Ops : opSt[o] = "running"}) <= 1
    /\ \A h \in Handles : PopsOn(h) <= 1 + monIn[h]

\* The worker and a monitor() caller are inside popFrontEvent of the same
\* backend.
C8_Witness == monIn["A"] = 1 /\ wpc = "pop" /\ opImpl[wop] = "A"

C10_SymlinkAlwaysUnresolved ==
    (last.op = "addFile" /\ last.kind \in {"linkToFile", "linkToDir", "linkToMissing"})
        => last.res = UnresolvedSymlink

\* C10 as amended: such a symlink fails with UnresolvedSymlink when it
\* resolves to a regular file, and with InvalidPath when it resolves to a
\* directory or to nothing; it never yields a handle.
C10_SymlinkByTarget ==
    /\ (last.op = "addFile" /\ last.kind = "linkToFile")
          => last.res = UnresolvedSymlink
    /\ (last.op = "addFile" /\ last.kind \in {"linkToDir", "linkToMissing"})
          => last.res = InvalidPath

\* addFile on a symlink to a regular file has just been refused.
C10_Witness ==
    last = [op |-> "addFile", kind |-> "linkToFile", res |-> UnresolvedSymlink]

\* C11: once remove( id ) has returned, no event delivered afterwards (to an
\* asyncMonitor handler run by the host loop, or as the return value of
\* monitor()) comes from the removed watch; the backend honours the removal.
C11_NoEventOfRemovedWatch ==
    [][/\ \A o \in Ops :
             (invoked'[o] > invoked[o] /\ delivered'[o].ev # EmptyEvent)
                 => delivered'[o].ev.w \in bk[opImpl[o]].watches
       /\ \A h \in Handles :
             (last'.op = "monitor" /\ last'.kind = "event" /\ monIn'[h] < monIn[h])
                 => Head(bk[h].events).w \in bk[h].watches]_vars

\* The weak observation of operation o cannot be resolved: it was made from
\* an empty handle, or its backend has been deallocated.
Unresolvable(o) == opImpl[o] = NullImpl \/ ~bk[opImpl[o]].alive

\* C13: an operation that starts executing while its weak observation cannot
\* be resolved posts exactly (operation_aborted, empty event) to the host
\* loop and calls no backend operation: the worker enters no pop and no
\* backend changes.
C13_UnresolvableOperationAborts ==
    [][\A o \in Ops :
          (started' = Append(started, o) /\ Unresolvable(o))
              => /\ hostQ' = Append(hostQ, AbortedCompletion(o))
                 /\ opSt'[o] = "posted"
                 /\ wpc' = "wait"
                 /\ bk' = bk]_vars

\* An operation submitted on a live backend, whose backend was deallocated
\* before it started, has posted the aborted completion.
C13_Witness ==
    \E o \in Ops :
        /\ opImpl[o] = "A"
        /\ o \in pendingAtDestroy
        /\ ~bk["A"].alive
        /\ opSt[o] = "posted"
        /\ wpc = "wait"
        /\ started = <<o>>
        /\ hostQ = <<AbortedCompletion(o)>>

\* C14 (as claimed): once impl->destroy() has been called on a backend, no
\* operation resolves its weak_ptr to that backend and starts a popFrontEvent
\* on it.
C14_NoPopAfterBackendDestroy ==
    [][(wpc = "wait" /\ wpc' = "pop") => ~bk[opImpl[wop']].destroyed]_vars

\* C14 (amended): no operation starts a popFrontEvent on a backend whose
\* ownership destroy() has released: an operation that starts then posts the
\* aborted completion.  A pop started between impl->destroy() and
\* impl.reset() is on a backend the registry still owns, and can return at
\* once with operation_aborted.
C14_NoPopAfterRelease ==
    [][/\ (wpc = "wait" /\ wpc' = "pop")
            => /\ RegistryOwns(opImpl[wop'])
               /\ bk[opImpl[wop']].destroyed
                     => /\ PopReady(bk'[opImpl[wop']])
                        /\ PopResult(bk'[opImpl[wop']]).ec = Aborted
       /\ \A o \in Ops :
             (/\ started' = Append(started, o)
              /\ opImpl[o] # NullImpl
              /\ hst[opImpl[o]] = "released")
                 => /\ wpc' = "wait"
                    /\ hostQ' = Append(hostQ, AbortedCompletion(o))]_vars

\* An operation submitted and started between impl->destroy() and
\* impl.reset() is inside popFrontEvent.
C14_Witness ==
    /\ wpc = "pop"
    /\ opImpl[wop] = "A"
    /\ hst["A"] = "destroying"
    /\ wop \notin pendingAtDestroy

\* C15 (as claimed): the registry holds the only owning reference: a backend
\* exists only while the registry owns it.
C15_RegistryIsOnlyOwner == \A h \in Handles : bk[h].alive => RegistryOwns(h)

\* C15 (amended): a queued operation owns nothing; the only owner besides the
\* registry is the operation the worker is running, for the duration of its
\* popFrontEvent.  A backend exists exactly while the registry or that one
\* running operation owns it.
C15_OnlyRunningOperationOwns ==
    \A h \in Handles :
        bk[h].alive <=> (\/ hst[h] \in {"live", "destroying"}
                         \/ wpc = "pop" /\ opImpl[wop] = h)

\* The registry has released the backend; the running operation keeps it
\* in existence while another operation on it is queued.
C15_Witness ==
    /\ hst["A"] = "released"
    /\ bk["A"].alive
    /\ wpc = "pop"
    /\ \E o \in Ops : opSt[o] = "queued" /\ opImpl[o] = "A"

\* The operations whose completion has not run: queued on the worker,
\* running a pop, or posted to the host loop.
Undelivered == {o \in Ops : opSt[o] \in {"queued", "running", "posted"}}

\* C16: while an operation exists whose completion has not yet been run,
\* the host io_service holds outstanding work on its behalf: at least one
\* unit for each such operation, so at least one whenever there is any.
C16_HostLoopHasWork ==
    /\ hostWork >= Cardinality(Undelivered)
    /\ Undelivered # {} => hostWork >= 1

\* One operation is inside its pop with nothing posted, a second one is
\* queued: the host loop's only work is the two operations' work objects.
C16_Witness ==
    /\ wpc = "pop"
    /\ hostQ = <<>>
    /\ queue # <<>>
    /\ Cardinality(Undelivered) = 2
    /\ hostWork = 2

\* The events held by the completions in q.
RECURSIVE EventsIn(_)
EventsIn(q) ==
    IF q = <<>> THEN <<>>
    ELSE IF Head(q).ev = EmptyEvent THEN EventsIn(Tail(q))
    ELSE <<Head(q).ev>> \o EventsIn(Tail(q))

\* The operations whose handler received an event.
GotEvent == {o \in Ops : invoked[o] > 0 /\ delivered[o].ev # EmptyEvent}

\* No event is held twice: by two posted completions, by two handlers, by a
\* handler and a posted completion, or by any of them and the backend.
EachEventOnce ==
    LET held == EventsIn(hostQ) \o bk["A"].events \o bk["B"].events IN
    /\ \A i, j \in DOMAIN held : i # j => held[i] # held[j]
    /\ \A o, p \in GotEvent : o # p => delivered[o].ev # delivered[p].ev
    /\ \A o \in GotEvent, i \in DOMAIN held : delivered[o].ev # held[i]

C18_HandlerOnlyOnHostLoop ==
    [][/\ invoked' # invoked
            => /\ hostQ # <<>>
               /\ hostQ' = Tail(hostQ)
               /\ invoked' = [invoked EXCEPT ![Head(hostQ).op] = @ + 1]
               /\ last'.op # "asyncMonitor"
               /\ UNCHANGED <<wpc, wop, queue, started, nOps, bk>>
       /\ (wpc = "pop" /\ wpc' # "pop")
            => /\ wpc' = "wait"
               /\ hostQ' # <<>>
               /\ hostQ'[Len(hostQ')].ec = PopResult(bk[opImpl[wop]]).ec
               /\ invoked' = invoked
       /\ (wpc # "exit" /\ wpc' = "exit")
            => wpc = "wait" /\ tear \in {"workReset", "stopped"}]_vars

\* The host loop has run a handler with the abort of its operation's pop
\* while the worker is inside the pop of the next operation.
C18_Witness ==
    \E o \in Ops :
        /\ invoked[o] = 1
        /\ delivered[o].ec = Aborted
        /\ opImpl[o] = "A"
        /\ wpc = "pop"
        /\ wop = o + 1
        /\ tear = "up"

\* C20: asyncMonitor on a handle whose backend destroy() has released is
\* accepted: the call is possible and returns, having queued an operation
\* that observes no backend.  When the worker runs such an operation it
\* posts (operation_aborted, empty event), enters no pop and changes no
\* backend, and that pair is what its handler receives.
C20_AsyncMonitorOnEmptyHandle ==
    /\ []((hst["A"] = "released" /\ tear = "up" /\ nOps < MaxOps)
             => ENABLED AsyncMonitor("A"))
    /\ [][/\ (nOps' = nOps + 1 /\ hst["A"] = "released")
               => /\ opImpl'[nOps'] = NullImpl
                  /\ opSt'[nOps'] = "queued"
                  /\ queue' = Append(queue, nOps')
                  /\ last' = [op |-> "asyncMonitor", kind |-> "none", res |-> "returned"]
                  /\ UNCHANGED <<bk, hostQ, invoked>>
          /\ \A o \in Ops :
                (started' = Append(started, o) /\ opImpl[o] = NullImpl)
                    => /\ hostQ' = Append(hostQ, AbortedCompletion(o))
                       /\ wpc' = "wait"
                       /\ bk' = bk]_vars
    /\ [](\A o \in Ops :
             (opSt[o] # "none" /\ opImpl[o] = NullImpl)
                 => /\ opSt[o] # "running"
                    /\ invoked[o] > 0 => delivered[o] = [ec |-> Aborted, ev |-> EmptyEvent])

\* An operation submitted after the release of the backend, later than an
\* operation that observed the backend, has had its handler run.
C20_Witness ==
    \E o, p \in Ops :
        /\ p < o
        /\ opImpl[p] = "A"
        /\ opImpl[o] = NullImpl
        /\ hst["A"] = "released"
        /\ invoked[o] = 1
        /\ delivered[o] = [ec |-> Aborted, ev |-> EmptyEvent]

\* Every io object of the service has been destroyed (or never constructed).
AllDestroyed == \A h \in Handles : hst[h] \in {"none", "released"}

\* C12: in every cycle (service constructed, io object constructed,
\* operations submitted or not, io object destroyed, service destroyed) the
\* destructor's join completes, and when it has completed the worker thread
\* has left its loop: no worker is running after the teardown.
C12_TeardownJoinsEveryCycle ==
    /\ ((tear = "workReset" /\ AllDestroyed) ~> (tear = "down"))
    /\ [](tear = "down" => wpc = "exit" /\ queue = <<>>)

\* A second service has been destroyed: the first one's teardown discarded
\* operation p, a later operation o ran on the second one's backend.
C12_Witness ==
    \E p, o \in Ops :
        /\ p < o
        /\ opSt[p] = "discarded"
        /\ opImpl[o] = "A"
        /\ opSt[o] = "done"
        /\ hst["A"] = "released"
        /\ tear = "down"
        /\ wpc = "exit"

\* The operations inside popFrontEvent on the worker, on whatever backend.
Running == {o \in Ops : opSt[o] = "running"}

\* C19: the backends of one service share its worker and its queue: at most
\* one operation is inside popFrontEvent in the whole service; the worker
\* starts an operation, on any backend, only when none is running; while one
\* is running every operation behind it stays queued, unstarted.
C19_OneWorkerForAllBackends ==
    /\ [](/\ Cardinality(Running) <= 1
          /\ wpc = "pop" => Running = {wop}
          /\ wpc = "pop" => \A i \in DOMAIN queue : opSt[queue[i]] = "queued")
    /\ [][started' # started
             => /\ wpc = "wait"
                /\ Running = {}
                /\ queue # <<>>
                /\ started' = Append(started, Head(queue))]_vars

\* The worker is blocked in the pop of an operation on A, which has no event
\* and is not destroyed; an operation on B is queued behind it, and B holds
\* an event.
C19_Witness ==
    /\ wpc = "pop"
    /\ opImpl[wop] = "A"
    /\ ~PopReady(bk["A"])
    /\ queue # <<>>
    /\ opImpl[Head(queue)] = "B"
    /\ bk["B"].alive
    /\ bk["B"].events # <<>>

====
